---- MODULE Spec2Model ----
(***************************************************************************)
(* Dense row-major matrix routines of LinearAlgebraInC: checkDimensions,   *)
(* isSquare, multiplyScalar, sumMatrices, multiplyMatrices and             *)
(* transposeMatrix, operating on Matrix structs {rows, cols, data} whose   *)
(* data pointer designates a flat buffer of doubles.                       *)
(*                                                                         *)
(* Memory is a sequence of buffers; a pointer is an index into it and NULL *)
(* is 0.  Offsets are 0-based as in C: offset i of a buffer is element     *)
(* i + 1 of the sequence.  Doubles are modelled by integers (all values    *)
(* stay small, so the arithmetic is exact).                                *)
(***************************************************************************)
EXTENDS Integers, Sequences, FiniteSets

\* ---------------------------------------------------------------- bounds
MaxDim == 3        \* rows and columns of the caller's matrices range over 1..MaxDim
MaxOps == 2        \* library calls per run

NULL == 0

VARIABLES
    mat,       \* the Matrix structs, by handle: [rows, cols, data]
    mem,       \* the buffers: mem[p] is the sequence of doubles at pointer p
    heap,      \* heap[p]: TRUE when buffer p came from malloc, FALSE for a caller array
    frees,     \* frees[p]: how many times free() was called on buffer p
    pending,   \* pending[h]: the source handle of a successful transpose into h
               \* whose release decision the caller has not taken yet, or "none"
    last,      \* the record of the latest library call
    pre,       \* [mat, mem] as they were when the latest call was made
    last2,     \* the record of the call before the latest
    pre2,      \* [mat, mem] as they were when the call before the latest was made
    steps      \* number of library calls made

vars == <<mat, mem, heap, frees, pending, last, pre, last2, pre2, steps>>

Operands == {"A", "B"}            \* the caller's input matrices
TransHandles == {"T1", "T2"}      \* the caller's structs for transpose results
Handles == Operands \cup {"R"} \cup TransHandles
Scalars == {2}                    \* the scalars the caller passes to multiplyScalar

\* the struct initialiser {rows, cols, data} of main
Matrix(r, c, d) == [rows |-> r, cols |-> c, data |-> d]

\* a caller array of n doubles: seed, seed + 1, ...
Fill(n, seed) == [i \in 1..n |-> seed + i - 1]

NoCall ==
    [op |-> "none", a |-> "none", b |-> "none", res |-> "none", sub |-> FALSE,
     scalar |-> 0, ret |-> TRUE, touched |-> {}, swaps |-> <<>>]

\* ----------------------------------------------------------- shape predicates
checkDimensions(matrix_a, matrix_b) ==
    matrix_a.rows = matrix_b.rows /\ matrix_a.cols = matrix_b.cols

isSquare(m) == m.rows = m.cols

\* ----------------------------------------------------------- memory access
\* *(p + off)
Rd(m, p, off) == m[p][off + 1]

\* *(p + off) = v
Wr(m, p, off, v) == [m EXCEPT ![p][off + 1] = v]

\* the test i < n of a for loop.  (Memory is never empty: naming m here makes TLC
\* evaluate the stores of one iteration before it goes on to the next, instead of
\* nesting all the pending stores.)
Continue(m, i, n) == i < n /\ Len(m) > 0

\* ----------------------------------------------------------- multiplyScalar
\* the loop bound of multiplyScalar: i < rows + cols
ScaleBound(matrix) == matrix.rows + matrix.cols

\* the buffer offsets multiplyScalar reads and writes
ScaleOffsets(matrix) == 0..(ScaleBound(matrix) - 1)

\* *(data + i) *= scalar.  An offset past the end of the buffer is undefined
\* behaviour: the element lies in whatever follows the buffer, which is either
\* memory that holds none of the buffers (victim = NULL) or the start of
\* another live buffer (victim).
ScaleStep(m, p, i, scalar, victim) ==
    IF i < Len(m[p])
    THEN Wr(m, p, i, Rd(m, p, i) * scalar)
    ELSE IF victim # NULL /\ i - Len(m[p]) < Len(m[victim])
         THEN Wr(m, victim, i - Len(m[p]), Rd(m, victim, i - Len(m[p])) * scalar)
         ELSE m

RECURSIVE ScaleLoop(_, _, _, _, _, _)
ScaleLoop(m, p, i, n, scalar, victim) ==
    IF ~Continue(m, i, n) THEN m
    ELSE ScaleLoop(ScaleStep(m, p, i, scalar, victim), p, i + 1, n, scalar, victim)

\* multiplyScalar(matrix, scalar): the memory after the call
multiplyScalar(m, matrix, scalar, victim) ==
    ScaleLoop(m, matrix.data, 0, ScaleBound(matrix), scalar, victim)

\* what may lie right after buffer p when multiplyScalar runs past its end
Victims(matrix) ==
    IF ScaleBound(matrix) <= Len(mem[matrix.data])
    THEN {NULL}
    ELSE {NULL} \cup {q \in 1..Len(mem) : q # matrix.data /\ frees[q] = 0}

\* ------------------------------------------------------------- sumMatrices
\* for(i = 0; i < n; i++) *(result->data + i) = *(a->data + i) + *(b->data + i)
RECURSIVE SumLoop(_, _, _, _, _, _)
SumLoop(m, pa, pb, pr, i, n) ==
    IF ~Continue(m, i, n) THEN m
    ELSE SumLoop(Wr(m, pr, i, Rd(m, pa, i) + Rd(m, pb, i)), pa, pb, pr, i + 1, n)

\* sumMatrices past its dimension check: the result's dimensions, the negation of
\* matrix_b for a subtraction, the sum
SumBody(mt, m, a, b, subtraction, res, victim) ==
    LET mt1 == [mt EXCEPT ![res].rows = mt[a].rows]
        mt2 == [mt1 EXCEPT ![res].cols = mt1[a].cols]
        m1  == IF subtraction THEN multiplyScalar(m, mt2[b], -1, victim) ELSE m
    IN  [ret |-> TRUE, mat |-> mt2,
         mem |-> SumLoop(m1, mt2[a].data, mt2[b].data, mt2[res].data, 0,
                         mt2[a].rows * mt2[a].cols)]

\* a sumMatrices that enforces the result's dimensions before it checks the operands'
sumMatrices_DimsFirst(mt, m, a, b, subtraction, res, victim) ==
    IF ~checkDimensions(mt[a], mt[b])
    THEN [ret |-> FALSE,
          mat |-> [mt EXCEPT ![res] = [@ EXCEPT !.rows = mt[a].rows, !.cols = mt[a].cols]],
          mem |-> m]
    ELSE SumBody(mt, m, a, b, subtraction, res, victim)

\* sumMatrices(&a, &b, subtraction, &res): [ret, mat, mem] after the call
sumMatrices(mt, m, a, b, subtraction, res, victim) ==
    IF ~checkDimensions(mt[a], mt[b])
    THEN [ret |-> FALSE, mat |-> mt, mem |-> m]
    ELSE SumBody(mt, m, a, b, subtraction, res, victim)

\* -------------------------------------------------------- multiplyMatrices
\* the accumulation written with = in place of +=
MulStep_Assign(m, ma, mb, mr, r, c, k) ==
    Wr(m, mr.data, r * mr.cols + c,
       Rd(m, ma.data, r * ma.cols + k) * Rd(m, mb.data, k * mb.cols + c))

\* *(result->data + r * result->cols + c) += a[r][k] * b[k][c]
MulStep(m, ma, mb, mr, r, c, k) ==
    Wr(m, mr.data, r * mr.cols + c,
       Rd(m, mr.data, r * mr.cols + c)
         + Rd(m, ma.data, r * ma.cols + k) * Rd(m, mb.data, k * mb.cols + c))

\* for(k = 0; k < a->cols; k++)
RECURSIVE MulInner(_, _, _, _, _, _, _)
MulInner(m, ma, mb, mr, r, c, k) ==
    IF ~Continue(m, k, ma.cols) THEN m
    ELSE MulInner(MulStep(m, ma, mb, mr, r, c, k), ma, mb, mr, r, c, k + 1)

\* for(c = 0; c < b->cols; c++) { *(result->data + r * result->cols + c) = 0; ... }
RECURSIVE MulCols(_, _, _, _, _, _)
MulCols(m, ma, mb, mr, r, c) ==
    IF ~Continue(m, c, mb.cols) THEN m
    ELSE MulCols(MulInner(Wr(m, mr.data, r * mr.cols + c, 0), ma, mb, mr, r, c, 0),
                 ma, mb, mr, r, c + 1)

\* for(r = 0; r < a->rows; r++)
RECURSIVE MulRows(_, _, _, _, _)
MulRows(m, ma, mb, mr, r) ==
    IF ~Continue(m, r, ma.rows) THEN m
    ELSE MulRows(MulCols(m, ma, mb, mr, r, 0), ma, mb, mr, r + 1)

\* the dimensions multiplyMatrices records in the result struct
MulShape(matrix_a, matrix_b) == [rows |-> matrix_a.cols, cols |-> matrix_b.cols]

\* multiplyMatrices(&a, &b, &res): [ret, mat, mem] after the call
multiplyMatrices(mt, m, a, b, res) ==
    IF mt[a].cols # mt[b].rows
    THEN [ret |-> FALSE, mat |-> mt, mem |-> m]
    ELSE LET mt1 == [mt EXCEPT ![res].rows = MulShape(mt[a], mt[b]).rows]
             mt2 == [mt1 EXCEPT ![res].cols = MulShape(mt1[a], mt1[b]).cols]
         IN  [ret |-> TRUE, mat |-> mt2,
              mem |-> MulRows(m, mt2[a], mt2[b], mt2[res], 0)]

\* --------------------------------------------------------- transposeMatrix
\* an inner swap loop that starts at column 0
SwapStart_Zero(i) == 0

\* the first column of the inner swap loop: j = i + 1
SwapStart(i) == i + 1

\* the (i, j) the square branch swaps, in loop order:
\* for(i = 0; i < rows; i++) for(j = i + 1; j < cols; j++)
RECURSIVE SwapSeq(_, _, _, _)
SwapSeq(i, j, rows, cols) ==
    IF i >= rows THEN <<>>
    ELSE IF j >= cols THEN SwapSeq(i + 1, SwapStart(i + 1), rows, cols)
    ELSE << <<i, j>> >> \o SwapSeq(i, j + 1, rows, cols)

\* a swap that forgets temp: m[i][j] = m[j][i]; m[j][i] = m[i][j]
Swap_NoTemp(m, matrix, i, j) ==
    LET m1 == Wr(m, matrix.data, i * matrix.cols + j, Rd(m, matrix.data, j * matrix.cols + i))
    IN  Wr(m1, matrix.data, j * matrix.cols + i, Rd(m1, matrix.data, i * matrix.cols + j))

\* temp = m[i][j]; m[i][j] = m[j][i]; m[j][i] = temp
Swap(m, matrix, i, j) ==
    LET temp == Rd(m, matrix.data, i * matrix.cols + j)
        m1   == Wr(m, matrix.data, i * matrix.cols + j, Rd(m, matrix.data, j * matrix.cols + i))
    IN  Wr(m1, matrix.data, j * matrix.cols + i, temp)

RECURSIVE SwapLoop(_, _, _, _)
SwapLoop(m, matrix, swaps, k) ==
    IF ~Continue(m, k, Len(swaps) + 1) THEN m
    ELSE SwapLoop(Swap(m, matrix, swaps[k][1], swaps[k][2]), matrix, swaps, k + 1)

\* the offset the rectangular branch stores m[i][j] to: j * result->cols + i
TransOffset(result, i, j) == j * result.cols + i

\* for(i ...) for(j ...) *(result->data + j * result->cols + i) = *(matrix->data + i * matrix->cols + j)
RECURSIVE CopyLoop(_, _, _, _, _)
CopyLoop(m, matrix, result, i, j) ==
    IF ~Continue(m, i, matrix.rows) THEN m
    ELSE IF ~Continue(m, j, matrix.cols) THEN CopyLoop(m, matrix, result, i + 1, 0)
    ELSE CopyLoop(Wr(m, result.data, TransOffset(result, i, j),
                     Rd(m, matrix.data, i * matrix.cols + j)),
                  matrix, result, i, j + 1)

\* an allocation of one double too many
TransSize_OneMore(result) == result.rows * result.cols + 1

\* the number of doubles transposeMatrix asks malloc for: result->rows * result->cols
TransSize(result) == result.rows * result.cols

\* the indeterminate content of a cell malloc returns
Uninit == 0 - 1000

\* malloc(n * sizeof(double)): the memory with a fresh buffer of n cells appended
Malloc(m, n) == Append(m, [i \in 1..n |-> Uninit])

\* transposeMatrix(&src, &res): [ret, mat, mem, fresh, swaps] after the call;
\* mallocOk tells whether malloc returns a buffer
transposeMatrix(mt, m, src, res, mallocOk) ==
    IF isSquare(mt[src])
    THEN LET swaps == SwapSeq(0, SwapStart(0), mt[src].rows, mt[src].cols)
             mt1 == [mt EXCEPT ![res].rows = mt[src].rows]
             mt2 == [mt1 EXCEPT ![res].cols = mt1[src].cols]
             mt3 == [mt2 EXCEPT ![res].data = mt2[src].data]
         IN  [ret |-> TRUE, mat |-> mt3, mem |-> SwapLoop(m, mt[src], swaps, 1),
              fresh |-> FALSE, swaps |-> swaps]
    ELSE LET mt1 == [mt EXCEPT ![res].rows = mt[src].cols]
             mt2 == [mt1 EXCEPT ![res].cols = mt1[src].rows]
         IN  IF ~mallocOk
             THEN [ret |-> FALSE, mat |-> [mt2 EXCEPT ![res].data = NULL], mem |-> m,
                   fresh |-> FALSE, swaps |-> <<>>]
             ELSE LET m1  == Malloc(m, TransSize(mt2[res]))
                      mt3 == [mt2 EXCEPT ![res].data = Len(m1)]
                  IN  [ret |-> TRUE, mat |-> mt3,
                       mem |-> CopyLoop(m1, mt3[src], mt3[res], 0, 0),
                       fresh |-> TRUE, swaps |-> <<>>]

\* ----------------------------------------------------------------- states
\* The caller's declarations, as in main: input matrices A and B over arrays of
\* exactly rows * cols doubles, a result struct R over an array of its own that is
\* large enough for every sum and product, and two structs for transpose results.
Init ==
    \E ar \in 1..MaxDim, ac \in 1..MaxDim, br \in 1..MaxDim, bc \in 1..MaxDim :
        /\ mat = [h \in Handles |->
                    CASE h = "A" -> Matrix(ar, ac, 1)
                      [] h = "B" -> Matrix(br, bc, 2)
                      [] h = "R" -> Matrix(MaxDim, MaxDim, 3)
                      [] OTHER   -> Matrix(0, 0, NULL)]
        /\ mem = << Fill(ar * ac, 1), Fill(br * bc, 2),
                    [i \in 1..(MaxDim * MaxDim) |-> 0 - i] >>
        /\ heap = << FALSE, FALSE, FALSE >>
        /\ frees = << 0, 0, 0 >>
        /\ pending = [h \in TransHandles |-> "none"]
        /\ last = NoCall
        /\ pre = [mat |-> mat, mem |-> mem]
        /\ last2 = NoCall
        /\ pre2 = [mat |-> mat, mem |-> mem]
        /\ steps = 0

\* bookkeeping shared by every library call
Called(rec) ==
    /\ steps' = steps + 1
    /\ last' = rec
    /\ pre' = [mat |-> mat, mem |-> mem]
    /\ last2' = last
    /\ pre2' = pre

\* multiplyScalar(&h, s)
Scale(h, s) ==
    /\ steps < MaxOps
    /\ \E victim \in Victims(mat[h]) :
        /\ mem' = multiplyScalar(mem, mat[h], s, victim)
        /\ Called([NoCall EXCEPT !.op = "scale", !.a = h, !.scalar = s,
                                 !.touched = ScaleOffsets(mat[h])])
        /\ UNCHANGED <<mat, heap, frees, pending>>

\* sumMatrices(&a, &b, sub, &R)
Sum(a, b, sub) ==
    /\ steps < MaxOps
    /\ \E victim \in (IF sub /\ checkDimensions(mat[a], mat[b]) THEN Victims(mat[b]) ELSE {NULL}) :
        LET out == sumMatrices(mat, mem, a, b, sub, "R", victim) IN
        /\ mat' = out.mat
        /\ mem' = out.mem
        /\ Called([NoCall EXCEPT !.op = "sum", !.a = a, !.b = b, !.res = "R", !.sub = sub,
                                 !.ret = out.ret,
                                 !.touched = IF sub /\ out.ret THEN ScaleOffsets(mat[b]) ELSE {}])
        /\ UNCHANGED <<heap, frees, pending>>

\* multiplyMatrices(&a, &b, &R)
Multiply(a, b) ==
    /\ steps < MaxOps
    /\ LET out == multiplyMatrices(mat, mem, a, b, "R") IN
        /\ mat' = out.mat
        /\ mem' = out.mem
        /\ Called([NoCall EXCEPT !.op = "mul", !.a = a, !.b = b, !.res = "R", !.ret = out.ret])
        /\ UNCHANGED <<heap, frees, pending>>

\* transposeMatrix(&m, &res), as main calls it: m holds a live buffer, res is a
\* struct of its own whose previous result the caller has dealt with
Transpose(m, res, mallocOk) ==
    /\ steps < MaxOps
    /\ m # res
    /\ mat[m].data # NULL
    /\ frees[mat[m].data] = 0
    /\ pending[res] = "none"
    /\ \A h \in TransHandles : pending[h] # res
    /\ (isSquare(mat[m]) => mallocOk)
    /\ LET out == transposeMatrix(mat, mem, m, res, mallocOk) IN
        /\ mat' = out.mat
        /\ mem' = out.mem
        /\ heap' = IF out.fresh THEN Append(heap, TRUE) ELSE heap
        /\ frees' = IF out.fresh THEN Append(frees, 0) ELSE frees
        /\ pending' = IF out.ret THEN [pending EXCEPT ![res] = m] ELSE pending
        /\ Called([NoCall EXCEPT !.op = "transpose", !.a = m, !.res = res,
                                 !.ret = out.ret, !.swaps = out.swaps])

\* the caller's step after a successful transpose (main):
\* if (m.data != res.data) free(res.data);
Release(res) ==
    /\ pending[res] # "none"
    /\ frees' = IF mat[pending[res]].data # mat[res].data
                THEN [frees EXCEPT ![mat[res].data] = @ + 1]
                ELSE frees
    /\ pending' = [pending EXCEPT ![res] = "none"]
    /\ UNCHANGED <<mat, mem, heap, last, pre, last2, pre2, steps>>

Next ==
    \/ \E h \in Operands, s \in Scalars : Scale(h, s)
    \/ \E b \in Operands, sub \in BOOLEAN : Sum("A", b, sub)
    \/ \E b \in Operands : Multiply("A", b)
    \/ \E m \in {"A", "T1"}, res \in TransHandles, ok \in BOOLEAN : Transpose(m, res, ok)
    \/ \E res \in TransHandles : Release(res)

Spec == Init /\ [][Next]_vars

\* ---------------------------------------------------------------- properties
\* the matrix structs of the latest call as they were when it was made
PreA == pre.mat[last.a]
PreB == pre.mat[last.b]

\* the number of elements of a matrix
Size(matrix) == matrix.rows * matrix.cols

\* element i of a matrix's buffer in memory m
Elem(m, matrix, i) == m[matrix.data][i + 1]

\* C1: after multiplyScalar(m, scalar), for every linear index i in [0, rows*cols)
\* m[i] equals the old m[i] times scalar.
C1_ScaleEveryElement ==
    last.op = "scale" =>
        \A i \in 0..(Size(PreA) - 1) :
            Elem(mem, mat[last.a], i) = Elem(pre.mem, PreA, i) * last.scalar

\* C2: for a and b of equal shape sumMatrices succeeds, the result has a's dimensions
\* and result[i] = a[i] + b[i] (addition) or a[i] - b[i] (subtraction) for every
\* linear index i, with a[i] and b[i] the operand values at the moment of the call.
C2_SumElementwise ==
    (last.op = "sum" /\ PreA.rows = PreB.rows /\ PreA.cols = PreB.cols) =>
        /\ last.ret
        /\ mat[last.res].rows = PreA.rows
        /\ mat[last.res].cols = PreA.cols
        /\ \A i \in 0..(Size(PreA) - 1) :
              Elem(mem, mat[last.res], i) =
                  IF last.sub THEN Elem(pre.mem, PreA, i) - Elem(pre.mem, PreB, i)
                  ELSE Elem(pre.mem, PreA, i) + Elem(pre.mem, PreB, i)

\* C3: sumMatrices leaves both input matrices unmodified in every case, so that a
\* subtraction followed by an addition of the same a and b yields
\* a[i] + b_original[i] for every i.
C3_SumLeavesInputs ==
    /\ last.op = "sum" =>
          /\ mat[last.a] = PreA /\ mem[PreA.data] = pre.mem[PreA.data]
          /\ mat[last.b] = PreB /\ mem[PreB.data] = pre.mem[PreB.data]
    /\ ( /\ last2.op = "sum" /\ last2.sub /\ last2.ret
         /\ last.op = "sum" /\ ~last.sub /\ last.ret
         /\ last.a = last2.a /\ last.b = last2.b ) =>
          \A i \in 0..(Size(pre2.mat[last2.a]) - 1) :
              Elem(mem, mat[last.res], i) =
                  Elem(pre2.mem, pre2.mat[last2.a], i) + Elem(pre2.mem, pre2.mat[last2.b], i)

\* C4: for a and b with a.cols = b.rows multiplyMatrices succeeds and the result's
\* recorded shape is a.rows x b.cols, also when a is not square.
C4_MulShape ==
    (last.op = "mul" /\ PreA.cols = PreB.rows) =>
        /\ last.ret
        /\ mat[last.res].rows = PreA.rows
        /\ mat[last.res].cols = PreB.cols

\* C10: multiplyScalar, called directly or by sumMatrices for a subtraction, reads
\* and writes only buffer offsets in [0, rows*cols) of the matrix it scales.
C10_ScaleInBounds ==
    /\ last.op = "scale" => last.touched \subseteq 0..(Size(PreA) - 1)
    /\ (last.op = "sum" /\ last.sub /\ last.ret) => last.touched \subseteq 0..(Size(PreB) - 1)
\* sum over k in [k, a.cols) of a[r][k] * b[k][c], read from memory m
RECURSIVE Dot(_, _, _, _, _, _)
Dot(m, a, b, r, c, k) ==
    IF k >= a.cols THEN 0
    ELSE m[a.data][r * a.cols + k + 1] * m[b.data][k * b.cols + c + 1] + Dot(m, a, b, r, c, k + 1)

\* the offsets of the a.rows * b.cols entries of a product, row-major with b.cols columns
Entries(a, b) == {r * b.cols + c : r \in 0..(a.rows - 1), c \in 0..(b.cols - 1)}

\* C5: for a and b with a.cols = b.rows and a result buffer distinct from both, after
\* multiplyMatrices the entry at offset r*b.cols + c of the result buffer is the sum
\* over k of a[r][k] * b[k][c] for every r < a.rows and c < b.cols; exactly these
\* a.rows*b.cols entries of the result buffer are written, and neither input is modified.
C5_MulEntries ==
    ( /\ last.op = "mul" /\ PreA.cols = PreB.rows
      /\ mat[last.res].data \notin {PreA.data, PreB.data} ) =>
        /\ \A r \in 0..(PreA.rows - 1), c \in 0..(PreB.cols - 1) :
              Elem(mem, mat[last.res], r * PreB.cols + c) = Dot(pre.mem, PreA, PreB, r, c, 0)
        /\ Cardinality(Entries(PreA, PreB)) = PreA.rows * PreB.cols
        /\ \A i \in 0..(Len(mem[mat[last.res].data]) - 1) :
              i \notin Entries(PreA, PreB) =>
                  Elem(mem, mat[last.res], i) = Elem(pre.mem, pre.mat[last.res], i)
        /\ mat[last.a] = PreA /\ mem[PreA.data] = pre.mem[PreA.data]
        /\ mat[last.b] = PreB /\ mem[PreB.data] = pre.mem[PreB.data]

\* a 2x3 matrix has been multiplied by a 3x2 matrix, as in main
C5_Witness ==
    /\ last.op = "mul" /\ last.ret /\ last.a # last.b
    /\ PreA.rows = 2 /\ PreA.cols = 3 /\ PreB.rows = 3 /\ PreB.cols = 2

\* C6: sumMatrices reports failure if and only if the operand shapes differ and
\* multiplyMatrices reports failure if and only if a.cols # b.rows; whenever either
\* reports failure, the inputs and the result (dimensions and every buffer element)
\* are exactly as before the call.
C6_FailClosed ==
    /\ last.op = "sum" => (~last.ret <=> (PreA.rows # PreB.rows \/ PreA.cols # PreB.cols))
    /\ last.op = "mul" => (~last.ret <=> PreA.cols # PreB.rows)
    /\ (last.op \in {"sum", "mul"} /\ ~last.ret) => (mat = pre.mat /\ mem = pre.mem)

\* a sum of matrices of different shapes failed, then a product of matrices with
\* disagreeing inner dimensions failed
C6_Witness ==
    /\ last2.op = "sum" /\ ~last2.ret
    /\ last.op = "mul" /\ ~last.ret /\ PreA.cols # PreB.rows

\* C7: a successful transposeMatrix of m (square or rectangular) yields a result of
\* shape (m.cols, m.rows) with result[c][r] equal to the value m[r][c] had before the
\* call, for every r < rows and c < cols; in the square case no diagonal entry is
\* touched and each off-diagonal pair (i,j),(j,i) is swapped exactly once.
C7_Transpose ==
    (last.op = "transpose" /\ last.ret) =>
        /\ mat[last.res].rows = PreA.cols
        /\ mat[last.res].cols = PreA.rows
        /\ \A r \in 0..(PreA.rows - 1), c \in 0..(PreA.cols - 1) :
              Elem(mem, mat[last.res], c * mat[last.res].cols + r)
                  = Elem(pre.mem, PreA, r * PreA.cols + c)
        /\ PreA.rows = PreA.cols =>
              /\ \A k \in 1..Len(last.swaps) : last.swaps[k][1] # last.swaps[k][2]
              /\ \A i \in 0..(PreA.rows - 1), j \in 0..(PreA.rows - 1) :
                    i < j => Cardinality({k \in 1..Len(last.swaps) :
                                 last.swaps[k] \in {<<i, j>>, <<j, i>>}}) = 1

\* a 3x3 matrix has been transposed in place
C7_Witness ==
    /\ last.op = "transpose" /\ last.ret
    /\ PreA.rows = 3 /\ PreA.cols = 3 /\ Len(last.swaps) = 3

\* C8: after a successful transposeMatrix(m, result), result.data is m.data if and
\* only if m is square; when m is not square, result.data is a freshly allocated
\* buffer of exactly cols*rows elements distinct from m's, and m's dimensions and
\* elements are unmodified.  A caller that frees result.data exactly when it differs
\* from m.data frees every allocated buffer exactly once and no caller-owned buffer.
C8_Aliasing ==
    /\ (last.op = "transpose" /\ last.ret) =>
          /\ (mat[last.res].data = mat[last.a].data) <=> (PreA.rows = PreA.cols)
          /\ PreA.rows # PreA.cols =>
                /\ mat[last.res].data \notin 1..Len(pre.mem)
                /\ heap[mat[last.res].data]
                /\ Len(mem[mat[last.res].data]) = PreA.cols * PreA.rows
                /\ mat[last.res].data # PreA.data
                /\ mat[last.a] = PreA
                /\ mem[PreA.data] = pre.mem[PreA.data]
    /\ \A p \in 1..Len(mem) :
          /\ frees[p] <= 1
          /\ ~heap[p] => frees[p] = 0
          /\ (heap[p] /\ frees[p] = 0) =>
                \E h \in TransHandles : pending[h] # "none" /\ mat[h].data = p

\* a 2x3 matrix has been transposed into a fresh buffer, which the caller has freed
C8_Witness ==
    /\ last.op = "transpose" /\ last.ret
    /\ PreA.rows = 2 /\ PreA.cols = 3
    /\ pending[last.res] = "none"
    /\ frees[mat[last.res].data] = 1

\* C9: transposing twice returns the original: the result of transposing the result
\* of a transpose of A has A's shape and A's element values; for a square A, after
\* the two in-place calls A's buffer holds its original values.
C9_TransposeTwice ==
    ( /\ last2.op = "transpose" /\ last2.ret
      /\ last.op = "transpose" /\ last.ret /\ last.a = last2.res ) =>
        LET orig == pre2.mat[last2.a] IN
        /\ mat[last.res].rows = orig.rows
        /\ mat[last.res].cols = orig.cols
        /\ \A i \in 0..(Size(orig) - 1) :
              Elem(mem, mat[last.res], i) = Elem(pre2.mem, orig, i)
        /\ orig.rows = orig.cols => mem[orig.data] = pre2.mem[orig.data]

\* a 2x3 matrix has been transposed and the 3x2 result transposed again
C9_Witness ==
    /\ last2.op = "transpose" /\ last2.ret
    /\ last.op = "transpose" /\ last.ret /\ last.a = last2.res
    /\ pre2.mat[last2.a].rows = 2 /\ pre2.mat[last2.a].cols = 3
====
